---- MODULE Spec2Model ----
(***************************************************************************)
(* State-mutation proposal engine of Docent (src/src/StateGenerator.cpp):  *)
(* the StateGenerator with its state initialiser and weighted operator     *)
(* set, the six StateOperations and the dispatcher loop of                 *)
(* StateGenerator::createSearchStep.                                       *)
(*                                                                         *)
(* Phrase indices are 0-based as in the source; Slice(s, a, b) is the      *)
(* half-open range [a, b) of the sequence s.                               *)
(***************************************************************************)
EXTENDS Integers, Sequences, FiniteSets, TLC

(***************************************************************************)
(* Bounds of the model.                                                    *)
(***************************************************************************)
\* size of a configuration: the source words of the document, one for every
\* sentence after the first and two for every operator of the generator.
\* With one operator a sentence has up to MaxSize - 2 phrases.
MaxSize == 6
\* candidate translations of the first source word in the phrase table
NumTrans == 2
\* size of the configurations in which termination under fair draws is checked
MaxFairSize == 5

\* source words of the longest document
MaxWords == MaxSize - 2

\* weights given to addOperation
Weights == {1}

(***************************************************************************)
(* Program constants.                                                      *)
(***************************************************************************)
\* "trials++ < 10" of the resampling loops
MaxTrials == 10
\* uint arithmetic wraps. TLC's integers are 32 bits wide and signed, so the
\* model wraps at 2^30 instead of 2^32: a wrapped value is in both cases far
\* beyond every sentence size, which is all the operators compare it with
UintBits == 30

UintMod == 2 ^ UintBits

\* a - b and a + b in uint arithmetic
USub(a, b) == (a - b + UintMod) % UintMod

UAdd(a, b) == (a + b) % UintMod

Min2(a, b) == IF a < b THEN a ELSE b

\* no draw of the random source is enumerated beyond this many values; the
\* code never asks for more than the sentence size unless an unsigned
\* subtraction wrapped
DrawCap == MaxWords + 2

(***************************************************************************)
(* Random source (Random.h): the outcomes of each draw.                    *)
(***************************************************************************)
\* Random::drawFromRange(n): an integer in [0, n)
drawFromRange(n) == 0 .. (Min2(n, DrawCap) - 1)

\* Random::drawFromGeometricDistribution(decay, max): an integer in [0, max]
drawFromGeometricDistribution(max) == 0 .. Min2(max, DrawCap)

\* Random::flipCoin(p)
flipCoin == BOOLEAN

(***************************************************************************)
(* Phrase pairs, the phrase table and segmentations.                       *)
(***************************************************************************)
\* coverage bitmaps of the phrase table: contiguous spans of source words
Coverages == {a .. b : a \in 1 .. MaxWords, b \in 1 .. MaxWords} \ {{}}

\* translations the phrase table holds for a span
Translations(cov) == IF cov = {1} THEN 1 .. NumTrans ELSE {1}

\* AnchoredPhrasePair: (coverage, translation)
PhraseTable ==
    UNION {{[cov |-> c, tr |-> t] : t \in Translations(c)} : c \in Coverages}

MinPos(cov) == CHOOSE x \in cov : \A y \in cov : x <= y

\* CompareAnchoredPhrasePairs: order by the first covered source position
CompareAnchoredPhrasePairs(a, b) == MinPos(a.cov) < MinPos(b.cov)

Slice(s, a, b) == SubSeq(s, a + 1, b)

Reverse(s) == [i \in 1 .. Len(s) |-> s[Len(s) + 1 - i]]

\* CoverageBitmap tgt; tgt |= pp.first for every pair of the range
CoverageOf(s) == UNION {s[i].cov : i \in 1 .. Len(s)}

\* the sequences of phrases of the table that cover exactly cov, each word
\* once, in any order: the segmentations a document can hold
RECURSIVE SegmentationsOf(_)
SegmentationsOf(cov) ==
    IF cov = {} THEN {<<>>}
    ELSE UNION {{<<p>> \o s : s \in SegmentationsOf(cov \ p.cov)} :
                p \in {q \in PhraseTable : q.cov \subseteq cov}}

\* those in ascending source order
RECURSIVE MonotonicSegmentationsOf(_)
MonotonicSegmentationsOf(cov) ==
    IF cov = {} THEN {<<>>}
    ELSE UNION {{<<p>> \o s : s \in MonotonicSegmentationsOf(cov \ p.cov)} :
                p \in {q \in PhraseTable :
                         q.cov \subseteq cov /\ MinPos(cov) \in q.cov}}

Segmentations == [cov \in SUBSET (1 .. MaxWords) |-> SegmentationsOf(cov)]

MonotonicSegmentations ==
    [cov \in SUBSET (1 .. MaxWords) |-> MonotonicSegmentationsOf(cov)]

\* PhrasePairCollection::proposeSegmentation(coverage): a segmentation of
\* exactly this coverage into phrases of the table, left to right
proposeSegmentation(cov) == MonotonicSegmentations[cov]

\* PhrasePairCollection::proposeAlternativeTranslation(pp): a pair of the
\* table with the same coverage, possibly pp itself
proposeAlternativeTranslation(pp) == {q \in PhraseTable : q.cov = pp.cov}

\* PhrasePairCollection::phrasesExist(seg)
phrasesExist(seg) == \A i \in 1 .. Len(seg) : seg[i] \in PhraseTable

\* source words of the document
WordsOf(d) ==
    LET RECURSIVE Sum(_)
        Sum(i) == IF i = 0 THEN 0
                  ELSE Cardinality(CoverageOf(d[i])) + Sum(i - 1)
    IN Sum(Len(d))

(***************************************************************************)
(* Search steps.                                                           *)
(***************************************************************************)
\* SearchStep::addModification(sentno, from, to, from_it, to_it, proposal)
Modification(sentno, from, to, old, new) ==
    [sentno |-> sentno, from |-> from, to |-> to, old |-> old, new |-> new]

\* what an operator's createSearchStep hands back: kind "null" is NULL,
\* "step" a SearchStep, "assert" a failed assert(), "ub" an iterator moved
\* outside its sequence; the other fields record the draws of the call
Result(kind, mods, start, len, dest, dir, newseg) ==
    [kind |-> kind, mods |-> mods, start |-> start, len |-> len,
     dest |-> dest, dir |-> dir, newseg |-> newseg]

NULL == Result("null", <<>>, 0, 0, 0, FALSE, <<>>)

\* a modification applied to a segmentation: the phrases at [from, to) are
\* replaced by the new slice
ApplyModification(seg, m) ==
    Slice(seg, 0, Min2(m.from, Len(seg))) \o m.new
        \o Slice(seg, Min2(m.to, Len(seg)), Len(seg))

\* the modifications of one step applied to a segmentation, each against the
\* indices of the segmentation before the step: the rightmost first
RECURSIVE ApplyModifications(_, _)
ApplyModifications(seg, mods) ==
    IF mods = <<>> THEN seg
    ELSE LET i == CHOOSE i \in 1 .. Len(mods) :
                    \A j \in 1 .. Len(mods) : mods[j].from <= mods[i].from
             rest == [k \in 1 .. (Len(mods) - 1) |->
                        IF k < i THEN mods[k] ELSE mods[k + 1]]
         IN ApplyModifications(ApplyModification(seg, mods[i]), rest)

OperationTypes ==
    {"change-phrase-translation", "permute-phrases", "linearise-phrases",
     "swap-phrases", "move-phrases", "resegment"}

VARIABLES
    pc,                \* position of the caller / dispatcher
    params,            \* initMethod and the state of the configured file
    initialiser_,      \* StateGenerator::initialiser_
    error,             \* exception thrown, "none" if none
    operations_,       \* StateGenerator::operations_ (types)
    cumulativeOperationDistribution_,
    doc,               \* DocumentState::getPhraseSegmentations()
    next_op,           \* index of the operator selected by the dispatcher
    sentno, sentsize, trials,   \* locals of the running operator
    draws,             \* calls of doc.drawSentence in the running operator
    nextStep           \* what the operator returned

vars == <<pc, params, initialiser_, error, operations_,
          cumulativeOperationDistribution_, doc, next_op, sentno, sentsize,
          trials, draws, nextStep>>

genVars == <<initialiser_, operations_, cumulativeOperationDistribution_>>

Max2(a, b) == IF a > b THEN a ELSE b

\* size of a configuration with this initialiser, this many operators and
\* sentences, and these words
SizeOf(init, nops, nsents, words) ==
    words + Max2(nsents, 1) - 1 + 2 * Max2(nops, 1)

opVars == <<next_op, sentno, sentsize, trials, draws, nextStep>>

Init ==
    /\ pc = "new"
    /\ params = [initMethod |-> "", file |-> ""]
    /\ initialiser_ = "none"
    /\ error = "none"
    /\ operations_ = <<>>
    /\ cumulativeOperationDistribution_ = <<>>
    /\ doc = <<>>
    /\ next_op = 0
    /\ sentno = 0
    /\ sentsize = 0
    /\ trials = 0
    /\ draws = 0
    /\ nextStep = NULL

(***************************************************************************)
(* Construction.                                                           *)
(***************************************************************************)
\* FileReadStateInitialiser::FileReadStateInitialiser: the exception thrown
\* for a file that is missing, exists but does not deserialize, or is good
FileReadStateInitialiserError(file) ==
    IF file = "missing" THEN "FileFormatException"
    ELSE IF file = "corrupt" THEN "archive_exception"
    ELSE "none"

\* StateGenerator::StateGenerator: the exception thrown, "none" if none
StateGeneratorError(initMethod, file) ==
    IF initMethod = "monotonic" THEN "none"
    ELSE IF initMethod = "saved-state" THEN FileReadStateInitialiserError(file)
    ELSE "ConfigurationException"

StateGenerator(initMethod, file) ==
    /\ pc = "new"
    /\ params' = [initMethod |-> initMethod, file |-> file]
    /\ error' = StateGeneratorError(initMethod, file)
    /\ initialiser_' = IF error' = "none" THEN initMethod ELSE "none"
    /\ pc' = IF error' = "none" THEN "ready" ELSE "failed"
    /\ UNCHANGED <<operations_, cumulativeOperationDistribution_, doc>>
    /\ UNCHANGED opVars

\* StateGenerator::addOperation
addOperation(weight, type) ==
    /\ pc = "ready"
    /\ SizeOf(initialiser_, Len(operations_) + 1, Len(doc), WordsOf(doc))
         <= MaxSize
    /\ IF type \in OperationTypes
       THEN /\ operations_' = Append(operations_, type)
            /\ cumulativeOperationDistribution_' =
                 Append(cumulativeOperationDistribution_,
                        IF cumulativeOperationDistribution_ # <<>>
                        THEN weight + cumulativeOperationDistribution_[
                                 Len(cumulativeOperationDistribution_)]
                        ELSE weight)
            /\ UNCHANGED <<pc, error>>
       ELSE /\ error' = "ConfigurationException"
            /\ pc' = "failed"
            /\ UNCHANGED <<operations_, cumulativeOperationDistribution_>>
    /\ UNCHANGED <<params, initialiser_, doc>>
    /\ UNCHANGED opVars

\* MonotonicStateInitialiser::initSegmentation and
\* FileReadStateInitialiser::initSegmentation for the next sentence of the
\* document: seg is what proposeSegmentation() or the saved state holds
initSegmentation(seg) ==
    /\ pc = "ready"
    /\ IF initialiser_ = "saved-state" /\ ~phrasesExist(seg)
       THEN /\ error' = "ConfigurationException"
            /\ pc' = "failed"
            /\ UNCHANGED doc
       ELSE /\ doc' = Append(doc, seg)
            /\ UNCHANGED <<pc, error>>
    /\ UNCHANGED params
    /\ UNCHANGED genVars
    /\ UNCHANGED opVars

\* FileReadStateInitialiser::initSegmentation for a saved segmentation
initSavedSegmentation(seg) == initialiser_ = "saved-state" /\ initSegmentation(seg)

\* what the initialiser is handed for a sentence of n words:
\* proposeSegmentation() of the whole sentence, or the segmentation a search
\* saved, which is in any order
SentenceSegmentations(n) ==
    IF initialiser_ = "saved-state" THEN Segmentations[1 .. n]
    ELSE proposeSegmentation(1 .. n)

\* a saved segmentation written with another phrase table
Stale(seg) == [seg EXCEPT ![1].tr = NumTrans + 1]

(***************************************************************************)
(* std:: algorithms on the sequences of the operators.                     *)
(***************************************************************************)
\* std::mismatch(first1, last1, first2): the number of leading elements of a
\* that equal those of b; an element of a beyond the end of b counts as a
\* mismatch (the read of b there is flagged by PastEnd)
Mismatch(a, b) ==
    LET differ == {i \in 0 .. (Len(a) - 1) : i >= Len(b) \/ a[i + 1] # b[i + 1]}
    IN IF differ = {} THEN Len(a)
       ELSE CHOOSE i \in differ : \A j \in differ : i <= j

\* std::mismatch read b beyond its end
PastEnd(a, b) == Mismatch(a, b) < Len(a) /\ Mismatch(a, b) >= Len(b)

\* std::adjacent_find(os, oe, std::not2(CompareAnchoredPhrasePairs())): the
\* offset of the first element that is not less than its successor, Len(run)
\* if there is none
AdjacentFind(run) ==
    LET desc == {i \in 0 .. (Len(run) - 2) :
                    ~CompareAnchoredPhrasePairs(run[i + 1], run[i + 2])}
    IN IF desc = {} THEN Len(run)
       ELSE CHOOSE i \in desc : \A j \in desc : i <= j

\* std::sort(pg.begin(), pg.end(), CompareAnchoredPhrasePairs())
Sort(pg) == SortSeq(pg, CompareAnchoredPhrasePairs)

\* std::random_shuffle(pg.begin(), pg.end(), ...): every arrangement of pg
Shuffles(pg) ==
    {[i \in 1 .. Len(pg) |-> pg[f[i]]] : f \in Permutations(1 .. Len(pg))}

(***************************************************************************)
(* The operators: what createSearchStep returns for given draws.           *)
(***************************************************************************)
\* ChangePhraseTranslation without "if(*it == pp) return NULL;"
ChangePhraseTranslation_NoEqualityCheck(sent, sno, ph, pp) ==
    Result("step",
           <<Modification(sno, ph, ph + 1, <<sent[ph + 1]>>, <<pp>>)>>,
           ph, 1, 0, FALSE, <<pp>>)

\* ChangePhraseTranslationOperation::createSearchStep after the draws of
\* sentno, ph and the proposed pair pp
ChangePhraseTranslation(sent, sno, ph, pp) ==
    IF sent[ph + 1] = pp THEN NULL
    ELSE Result("step",
                <<Modification(sno, ph, ph + 1, <<sent[ph + 1]>>, <<pp>>)>>,
                ph, 1, 0, FALSE, <<pp>>)

\* TrimmedStep without the second std::mismatch: the common suffix stays
TrimmedStep_SuffixKept(sno, start, nperm, orig, pg) ==
    LET p == Mismatch(orig, pg)
    IN Result("step",
              <<Modification(sno, start + p, start + Len(pg),
                             Slice(orig, p, Len(orig)), Slice(pg, p, Len(pg)))>>,
              start, nperm, 0, FALSE, pg)

\* the tail shared by PermutePhrases and LinearisePhrases, from the two
\* std::mismatch calls to the return: orig is the range [os, oe), pg its
\* rearrangement, start the uint start at that point, nperm the drawn length
TrimmedStep(sno, start, nperm, orig, pg) ==
    LET p == Mismatch(orig, pg)
        q == Mismatch(Reverse(orig), Reverse(pg))
        from == start + p
        to == from + ((Len(pg) - q) - p)
    IN IF p + q > Len(orig)
       THEN Result("ub", <<>>, start, nperm, 0, FALSE, pg)
       ELSE Result("step",
                   <<Modification(sno, from, to, Slice(orig, p, Len(orig) - q),
                                  Slice(pg, p, Len(pg) - q))>>,
                   start, nperm, 0, FALSE, pg)

\* PermutePhrasesOperation::createSearchStep after the preamble, for the
\* draws nperm and start and the last shuffle pg of the retry loop
PermutePhrases(sent, sno, nperm, start, pg) ==
    LET orig == Slice(sent, start, start + nperm)
    IN IF Mismatch(orig, pg) = Len(orig)
       THEN Result("null", <<>>, start, nperm, 0, FALSE, <<>>)
       ELSE TrimmedStep(sno, start, nperm, orig, pg)

\* the range [os, oe) LinearisePhrases sorts: os is what adjacent_find
\* returned
LineariseRange(run) == Slice(run, AdjacentFind(run), Len(run))

\* LinearisePhrasesOperation::createSearchStep after the preamble
LinearisePhrases(sent, sno, nperm, start) ==
    LET run == Slice(sent, start, start + nperm)
        orig == LineariseRange(run)
    IN IF AdjacentFind(run) = Len(run)
       THEN Result("null", <<>>, start, nperm, 0, FALSE, <<>>)
       ELSE TrimmedStep(sno, start, nperm, orig, Sort(orig))

\* the draws of nperm and start shared by PermutePhrases, LinearisePhrases
\* and Resegment: nperm = geometric(decay, size - 1) + 1,
\* start = drawFromRange(size - nperm + 1)
RunLengths(size) ==
    {UAdd(g, 1) : g \in drawFromGeometricDistribution(USub(size, 1))}

RunStarts(size, nperm) == drawFromRange(UAdd(USub(size, nperm), 1))

\* SwapPhrasesOperation::createSearchStep: the direction for phrase1
SwapDirections(size, phrase1) ==
    IF phrase1 = 0 THEN {TRUE}
    ELSE IF phrase1 = USub(size, 1) THEN {FALSE}
    ELSE flipCoin

\* SwapPhrase2 with the distance to the right drawn up to ph2range
SwapPhrase2_RangeOffByOne(size, phrase1, direction) ==
    IF direction
    THEN IF phrase1 = USub(size, 2) THEN {USub(size, 1)}
         ELSE LET ph2range == USub(USub(size, phrase1), 1)
              IN {UAdd(phrase1, UAdd(g, 1)) :
                    g \in drawFromGeometricDistribution(ph2range)}
    ELSE IF phrase1 = 1 THEN {0}
         ELSE {USub(phrase1, UAdd(g, 1)) :
                 g \in drawFromGeometricDistribution(USub(phrase1, 1))}

\* SwapPhrasesOperation::createSearchStep: the values phrase2 can take
SwapPhrase2(size, phrase1, direction) ==
    IF direction
    THEN IF phrase1 = USub(size, 2) THEN {USub(size, 1)}
         ELSE LET ph2range == USub(USub(size, phrase1), 1)
              IN {UAdd(phrase1, UAdd(g, 1)) :
                    g \in drawFromGeometricDistribution(USub(ph2range, 1))}
    ELSE IF phrase1 = 1 THEN {0}
         ELSE {USub(phrase1, UAdd(g, 1)) :
                 g \in drawFromGeometricDistribution(USub(phrase1, 1))}

\* SwapPhrasesOperation::createSearchStep after the preamble and the draws
SwapPhrases(sent, sno, phrase1, direction, phrase2) ==
    LET size == Len(sent) IN
    IF direction /\ phrase1 # USub(size, 2) /\ ~(phrase2 < size)
    THEN Result("assert", <<>>, phrase1, 1, phrase2, direction, <<>>)
    ELSE IF phrase1 >= size \/ phrase2 >= size
    THEN Result("ub", <<>>, phrase1, 1, phrase2, direction, <<>>)
    ELSE Result("step",
                <<Modification(sno, phrase1, phrase1 + 1,
                               <<sent[phrase1 + 1]>>, <<sent[phrase2 + 1]>>),
                  Modification(sno, phrase2, phrase2 + 1,
                               <<sent[phrase2 + 1]>>, <<sent[phrase1 + 1]>>)>>,
                phrase1, 1, phrase2, direction, <<>>)

\* MovePhrasesOperation::createSearchStep: block sizes and block starts
MoveBlocks(size) ==
    {UAdd(g, 1) : g \in drawFromGeometricDistribution(USub(size, 2))}

MoveStarts(size, block, direction) ==
    {IF direction THEN s ELSE UAdd(s, 1) :
       s \in drawFromRange(USub(size, block))}

\* MoveDests with the distance of a right move one too small
MoveDests_DistanceOffByOne(size, start, block, direction) ==
    IF direction
    THEN IF UAdd(start, block) = USub(size, 1) THEN {size}
         ELSE LET range == USub(USub(size, start), block)
              IN {UAdd(UAdd(start, block), g) :
                    g \in drawFromGeometricDistribution(USub(range, 1))}
    ELSE IF start = 1 THEN {0}
         ELSE {USub(start, UAdd(g, 1)) :
                 g \in drawFromGeometricDistribution(USub(start, 1))}

\* MovePhrasesOperation::createSearchStep: the destinations of the block
MoveDests(size, start, block, direction) ==
    IF direction
    THEN IF UAdd(start, block) = USub(size, 1) THEN {size}
         ELSE LET range == USub(USub(size, start), block)
              IN {UAdd(UAdd(start, block), UAdd(g, 1)) :
                    g \in drawFromGeometricDistribution(USub(range, 1))}
    ELSE IF start = 1 THEN {0}
         ELSE {USub(start, UAdd(g, 1)) :
                 g \in drawFromGeometricDistribution(USub(start, 1))}

\* MovePhrasesOperation::createSearchStep after the preamble and the draws
MovePhrases(sent, sno, direction, block, start, dest) ==
    LET size == Len(sent) IN
    IF ~(dest <= size)
    THEN Result("assert", <<>>, start, block, dest, direction, <<>>)
    ELSE IF start + block > size
    THEN Result("ub", <<>>, start, block, dest, direction, <<>>)
    ELSE Result("step",
                <<Modification(sno, dest, dest, <<>>,
                               Slice(sent, start, start + block)),
                  Modification(sno, start, start + block,
                               Slice(sent, start, start + block), <<>>)>>,
                start, block, dest, direction, <<>>)

\* ResegmentOperation::createSearchStep after the draws of sentno, nperm and
\* start, for the segmentation newseg that proposeSegmentation returned
Resegment(sent, sno, nperm, start, newseg) ==
    LET run == Slice(sent, start, start + nperm)
        p == Mismatch(run, newseg)
        q == Mismatch(Reverse(run), Reverse(newseg))
        from == start + p
        to == from + ((Len(newseg) - q) - p)
    IN IF PastEnd(run, newseg)
       THEN Result("ub", <<>>, start, nperm, 0, FALSE, newseg)
       ELSE IF p = Len(run)
       THEN Result("null", <<>>, start, nperm, 0, FALSE, newseg)
       ELSE IF \/ PastEnd(Reverse(run), Reverse(newseg))
               \/ p + q > Len(newseg)
               \/ p + q > Len(run)
       THEN Result("ub", <<>>, start, nperm, 0, FALSE, newseg)
       ELSE Result("step",
                   <<Modification(sno, from, to, Slice(run, p, Len(run) - q),
                                  Slice(newseg, p, Len(newseg) - q))>>,
                   start, nperm, 0, FALSE, newseg)

\* everything one operator's createSearchStep can hand back for the drawn
\* sentence, over all outcomes of its remaining draws
ChangePhraseTranslationResults(sent, sno) ==
    UNION {{ChangePhraseTranslation(sent, sno, ph, pp) :
              pp \in proposeAlternativeTranslation(sent[ph + 1])} :
           ph \in drawFromRange(Len(sent))}

PermutePhrasesResults(sent, sno) ==
    UNION {UNION {{PermutePhrases(sent, sno, n, st, pg) :
                     pg \in Shuffles(Slice(sent, st, st + n))} :
                  st \in RunStarts(Len(sent), n)} :
           n \in RunLengths(Len(sent))}

LinearisePhrasesResults(sent, sno) ==
    UNION {{LinearisePhrases(sent, sno, n, st) :
              st \in RunStarts(Len(sent), n)} :
           n \in RunLengths(Len(sent))}

SwapPhrasesResults(sent, sno) ==
    UNION {UNION {{SwapPhrases(sent, sno, p1, d, p2) :
                     p2 \in SwapPhrase2(Len(sent), p1, d)} :
                  d \in SwapDirections(Len(sent), p1)} :
           p1 \in drawFromRange(Len(sent))}

MovePhrasesResults(sent, sno) ==
    UNION {UNION {UNION {{MovePhrases(sent, sno, d, b, st, de) :
                            de \in MoveDests(Len(sent), st, b, d)} :
                         st \in MoveStarts(Len(sent), b, d)} :
                  b \in MoveBlocks(Len(sent))} :
           d \in flipCoin}

ResegmentResults(sent, sno) ==
    UNION {UNION {{Resegment(sent, sno, n, st, ns) :
                     ns \in proposeSegmentation(
                              CoverageOf(Slice(sent, st, st + n)))} :
                  st \in RunStarts(Len(sent), n)} :
           n \in RunLengths(Len(sent))}

(***************************************************************************)
(* The dispatcher and the running operator.                                *)
(***************************************************************************)
\* the operators that start with the resampling loop
NeedsTwoPhrases ==
    {"permute-phrases", "linearise-phrases", "swap-phrases", "move-phrases"}

\* the test written as "sentsize < 1"
TooShort_OnlyEmpty(size) == size < 1

\* "sentsize < 2" of the resampling loop and of the return NULL after it
TooShort(size) == size < 2

\* "trials++ < 10"
MayRetry(t) == t < MaxTrials

\* a call of StateGenerator::createSearchStep by the search
CallCreateSearchStep ==
    /\ pc = "ready"
    /\ operations_ # <<>>
    /\ doc # <<>>
    /\ pc' = "select"
    /\ nextStep' = NULL
    /\ UNCHANGED <<params, error, doc, next_op, sentno, sentsize, trials, draws>>
    /\ UNCHANGED genVars

\* Random::drawFromCumulativeDistribution for the uniform draw u: the first
\* index whose cumulative weight exceeds u
drawFromCumulativeDistribution(cum, u) ==
    CHOOSE i \in 1 .. Len(cum) :
        /\ u < cum[i]
        /\ \A j \in 1 .. (i - 1) : ~(u < cum[j])

\* next_op = random_.drawFromCumulativeDistribution(...), and the entry into
\* operations_[next_op].createSearchStep(doc)
SelectOperation(u) ==
    /\ pc = "select"
    /\ next_op' =
         drawFromCumulativeDistribution(cumulativeOperationDistribution_, u)
    /\ trials' = 0
    /\ draws' = 0
    /\ pc' = "draw"
    /\ UNCHANGED <<params, error, doc, sentno, sentsize, nextStep>>
    /\ UNCHANGED genVars

\* one pass of "do { sentno = doc.drawSentence(rnd); sentsize = ...; }
\* while(sentsize < 2 && trials++ < 10)", or the single draw of
\* ChangePhraseTranslation and Resegment
drawSentence(s) ==
    /\ pc = "draw"
    /\ sentno' = s
    /\ sentsize' = Len(doc[s + 1])
    /\ draws' = draws + 1
    /\ IF operations_[next_op] \in NeedsTwoPhrases /\ TooShort(sentsize')
       THEN /\ trials' = trials + 1
            /\ pc' = IF MayRetry(trials) THEN "draw" ELSE "body"
       ELSE /\ trials' = trials
            /\ pc' = "body"
    /\ UNCHANGED <<params, error, doc, next_op, nextStep>>
    /\ UNCHANGED genVars

\* the operator of this type is past its draw of the sentence
Running(type) == pc = "body" /\ operations_[next_op] = type

\* the rest of an operator's createSearchStep, handing back r
OperatorReturns(r) ==
    /\ nextStep' = r
    /\ pc' = "check"
    /\ trials' = 0
    /\ draws' = 0
    /\ UNCHANGED <<params, error, doc, next_op, sentno, sentsize>>
    /\ UNCHANGED genVars

\* "if(sentsize < 2) return NULL;" after the resampling loop, then the body
AfterPreamble(results) == IF TooShort(sentsize) THEN {NULL} ELSE results

ChangePhraseTranslationOperation ==
    /\ Running("change-phrase-translation")
    /\ \E r \in ChangePhraseTranslationResults(doc[sentno + 1], sentno) :
          OperatorReturns(r)

PermutePhrasesOperation ==
    /\ Running("permute-phrases")
    /\ \E r \in AfterPreamble(PermutePhrasesResults(doc[sentno + 1], sentno)) :
          OperatorReturns(r)

LinearisePhrasesOperation ==
    /\ Running("linearise-phrases")
    /\ \E r \in AfterPreamble(LinearisePhrasesResults(doc[sentno + 1], sentno)) :
          OperatorReturns(r)

SwapPhrasesOperation ==
    /\ Running("swap-phrases")
    /\ \E r \in AfterPreamble(SwapPhrasesResults(doc[sentno + 1], sentno)) :
          OperatorReturns(r)

MovePhrasesOperation ==
    /\ Running("move-phrases")
    /\ \E r \in AfterPreamble(MovePhrasesResults(doc[sentno + 1], sentno)) :
          OperatorReturns(r)

ResegmentOperation ==
    /\ Running("resegment")
    /\ \E r \in ResegmentResults(doc[sentno + 1], sentno) :
          OperatorReturns(r)

\* Dispatch with the test of getModifications().empty() inverted
Dispatch_EmptyTestInverted(step) ==
    IF step.kind \in {"assert", "ub"} THEN "abort"
    ELSE IF step.kind = "null" THEN "continue"
    ELSE IF step.mods = <<>> THEN "break"
    ELSE "delete"

\* the dispatcher's decision on what the operator returned: "continue" for
\* NULL, "delete" for a step without modifications, "break" otherwise;
\* "abort" when the operator did not return at all
Dispatch(step) ==
    IF step.kind \in {"assert", "ub"} THEN "abort"
    ELSE IF step.kind = "null" THEN "continue"
    ELSE IF step.mods # <<>> THEN "break"
    ELSE "delete"

\* the tail of the loop body of StateGenerator::createSearchStep
CheckStep ==
    /\ pc = "check"
    /\ pc' = CASE Dispatch(nextStep) = "break" -> "returned"
               [] Dispatch(nextStep) = "abort" -> "aborted"
               [] OTHER -> "select"
    /\ nextStep' = IF Dispatch(nextStep) \in {"delete", "continue"} THEN NULL
                    ELSE nextStep
    /\ sentno' = 0
    /\ sentsize' = 0
    /\ UNCHANGED <<params, error, doc, next_op, trials, draws>>
    /\ UNCHANGED genVars

\* the search is done with the returned step and may ask for the next one
ReleaseStep ==
    /\ pc = "returned"
    /\ pc' = "ready"
    /\ nextStep' = NULL
    /\ next_op' = 0
    /\ UNCHANGED <<params, error, doc, sentno, sentsize, trials, draws>>
    /\ UNCHANGED genVars

\* the sum of the weights
TotalWeight ==
    cumulativeOperationDistribution_[Len(cumulativeOperationDistribution_)]

\* the dispatcher selects the operator for the uniform draw u in [0, total)
Select ==
    /\ pc = "select"
    /\ \E u \in 0 .. (TotalWeight - 1) : SelectOperation(u)

\* doc.drawSentence(rnd): every sentence has at least one word, hence a
\* positive weight
DrawSentence == \E s \in 0 .. (Len(doc) - 1) : drawSentence(s)

\* the document is built sentence by sentence from what the initialiser
\* returns, as far as the size of the configuration allows
SentenceLengths ==
    {n \in 1 .. MaxWords :
       SizeOf(initialiser_, Len(operations_), Len(doc) + 1, WordsOf(doc) + n)
         <= MaxSize}

InitialiseSentence ==
    \E n \in SentenceLengths :
       \E s \in SentenceSegmentations(n) : initSegmentation(s)

InitialiseStaleSentence ==
    \E n \in SentenceLengths :
       \E s \in SentenceSegmentations(n) : initSavedSegmentation(Stale(s))

Next ==
    \/ \E m \in {"monotonic", "saved-state", "random"},
          f \in {"missing", "corrupt", "good"} : StateGenerator(m, f)
    \/ \E w \in Weights, t \in OperationTypes \cup {"unknown"} :
          addOperation(w, t)
    \/ InitialiseSentence
    \/ InitialiseStaleSentence
    \/ CallCreateSearchStep
    \/ Select
    \/ DrawSentence
    \/ ChangePhraseTranslationOperation
    \/ PermutePhrasesOperation
    \/ LinearisePhrasesOperation
    \/ SwapPhrasesOperation
    \/ MovePhrasesOperation
    \/ ResegmentOperation
    \/ CheckStep
    \/ ReleaseStep

Spec == Init /\ [][Next]_vars

(***************************************************************************)
(* Fair draws. Every draw has finitely many outcomes, each of a fixed      *)
(* positive probability, so with probability one a set of outcomes that is *)
(* possible again and again is drawn again and again: strong fairness      *)
(* holds of every action that is a set of outcomes of one draw. FairDraws  *)
(* states it for three such actions, and that the loop keeps running.      *)
(***************************************************************************)
\* the operator of type t has draws for which it hands back a step for sent
CanSucceed(t, sent) ==
    CASE t = "change-phrase-translation" ->
           \E i \in 1 .. Len(sent) :
              proposeAlternativeTranslation(sent[i]) # {sent[i]}
      [] t \in {"permute-phrases", "swap-phrases", "move-phrases"} ->
           Len(sent) >= 2
      [] t = "linearise-phrases" ->
           Len(sent) >= 2 /\ AdjacentFind(sent) < Len(sent)
      [] t = "resegment" ->
           \E a \in 0 .. (Len(sent) - 1) :
              \E b \in (a + 1) .. Len(sent) :
                 proposeSegmentation(CoverageOf(Slice(sent, a, b)))
                   # {Slice(sent, a, b)}

\* the dispatcher draws an operator that can succeed on some sentence
DrawsAbleOperator ==
    /\ Select
    /\ \E s \in 1 .. Len(doc) : CanSucceed(operations_[next_op'], doc[s])

\* the running operator draws a sentence it can succeed on
DrawsFittingSentence ==
    /\ DrawSentence
    /\ CanSucceed(operations_[next_op], doc[sentno' + 1])

\* the draws of the running operator make it hand back a step
ProducesStep ==
    /\ \/ ChangePhraseTranslationOperation
       \/ PermutePhrasesOperation
       \/ LinearisePhrasesOperation
       \/ SwapPhrasesOperation
       \/ MovePhrasesOperation
       \/ ResegmentOperation
    /\ nextStep'.kind = "step"

\* one step of the dispatcher loop, whatever the draws
LoopStep ==
    \/ Select
    \/ DrawSentence
    \/ ChangePhraseTranslationOperation
    \/ PermutePhrasesOperation
    \/ LinearisePhrasesOperation
    \/ SwapPhrasesOperation
    \/ MovePhrasesOperation
    \/ ResegmentOperation
    \/ CheckStep

FairDraws ==
    /\ WF_vars(LoopStep)
    /\ SF_vars(DrawsAbleOperator)
    /\ SF_vars(DrawsFittingSentence)
    /\ SF_vars(ProducesStep)

\* size of the configuration
Size == SizeOf(initialiser_, Len(operations_), Len(doc), WordsOf(doc))

\* the configuration stays within MaxFairSize
Fits == Size' <= MaxFairSize

\* the steps of Next within configurations of at most MaxFairSize
FairNext ==
    \/ \E m \in {"monotonic", "saved-state", "random"},
          f \in {"missing", "corrupt", "good"} : StateGenerator(m, f)
    \/ \E w \in Weights, t \in OperationTypes \cup {"unknown"} :
          addOperation(w, t) /\ Fits
    \/ InitialiseSentence /\ Fits
    \/ InitialiseStaleSentence /\ Fits
    \/ CallCreateSearchStep
    \/ Select
    \/ DrawSentence
    \/ ChangePhraseTranslationOperation
    \/ PermutePhrasesOperation
    \/ LinearisePhrasesOperation
    \/ SwapPhrasesOperation
    \/ MovePhrasesOperation
    \/ ResegmentOperation
    \/ CheckStep
    \/ ReleaseStep

FairSpec == Init /\ [][FairNext]_vars /\ FairDraws

(***************************************************************************)
(* Properties.                                                             *)
(***************************************************************************)
\* the operator that is running or has just returned
OpType == operations_[next_op]

\* an operator has just handed back nextStep, or the dispatcher returned it
Returned == pc \in {"check", "returned"}

StepReturned == Returned /\ nextStep.kind = "step"

\* the sentence the modifications of nextStep are about
StepSentence == doc[nextStep.mods[1].sentno + 1]

\* how often a segmentation covers the source word w
TimesCovered(seg, w) == Cardinality({i \in 1 .. Len(seg) : w \in seg[i].cov})

\* C1: every modification (sentno, from, to, old, new) of a step returned by
\* an operator has 0 <= from <= to <= size of sentence sentno, and old is
\* the slice [from, to) of that sentence
C1_IndexConsistency ==
    StepReturned =>
        \A i \in 1 .. Len(nextStep.mods) :
           LET m == nextStep.mods[i]
               seg == doc[m.sentno + 1]
           IN /\ 0 <= m.from
              /\ m.from <= m.to
              /\ m.to <= Len(seg)
              /\ m.old = Slice(seg, m.from, m.to)

\* C2: replacing the index ranges of the modifications of a returned step by
\* their new slices yields a segmentation that covers every source word as
\* often as the sentence did before
C2_CoveragePreservation ==
    StepReturned =>
        \A w \in 1 .. MaxWords :
           TimesCovered(ApplyModifications(StepSentence, nextStep.mods), w)
             = TimesCovered(StepSentence, w)

\* C3: a step that StateGenerator::createSearchStep returns is not NULL, has
\* at least one modification, and applying its modifications changes the
\* sentence they are about
C3_NeverEmptyOrNoOp ==
    pc = "returned" =>
        /\ nextStep.kind = "step"
        /\ nextStep.mods # <<>>
        /\ ApplyModifications(StepSentence, nextStep.mods) # StepSentence

C3_Witness ==
    /\ pc = "returned"
    /\ OpType = "change-phrase-translation"
    /\ Len(nextStep.mods) = 1

SomeOperatorCanSucceed ==
    \E i \in 1 .. Len(operations_) :
       \E s \in 1 .. Len(doc) : CanSucceed(operations_[i], doc[s])

C5_MinimalDiff ==
    (Returned /\ OpType \in {"permute-phrases", "linearise-phrases", "resegment"})
    => /\ nextStep.kind \in {"null", "step"}
       /\ nextStep.kind = "step" =>
            /\ Len(nextStep.mods) = 1
            /\ LET m == nextStep.mods[1]
               IN /\ m.old # <<>>
                  /\ m.new # <<>>
                  /\ m.old[1] # m.new[1]
                  /\ m.old[Len(m.old)] # m.new[Len(m.new)]

\* a permutation of four phrases that keeps the first and the last in place
C5_Witness ==
    /\ StepReturned
    /\ OpType = "permute-phrases"
    /\ nextStep.len = 4
    /\ nextStep.mods[1].from = nextStep.start + 1
    /\ Len(nextStep.mods[1].old) = 2

\* C6: PermutePhrases, LinearisePhrases, SwapPhrases and MovePhrases hand
\* back NULL when the last sentence they drew has fewer than 2 phrases, and
\* no step of theirs is about such a sentence; ChangePhraseTranslation, run
\* on a one-phrase sentence whose phrase has another translation in the
\* table, has an outcome that is a step
C6_ShortSentences ==
    /\ (pc = "check" /\ OpType \in NeedsTwoPhrases) =>
          /\ sentsize < 2 => nextStep = NULL
          /\ nextStep.kind = "step" =>
                \A i \in 1 .. Len(nextStep.mods) :
                   Len(doc[nextStep.mods[i].sentno + 1]) >= 2
    /\ (/\ Running("change-phrase-translation")
        /\ Len(doc[sentno + 1]) = 1
        /\ proposeAlternativeTranslation(doc[sentno + 1][1])
              # {doc[sentno + 1][1]})
       => \E r \in ChangePhraseTranslationResults(doc[sentno + 1], sentno) :
             r.kind = "step" /\ r.mods[1].sentno = sentno

\* an operator that needs two phrases gave up on a one-phrase sentence of a
\* document in which ChangePhraseTranslation can succeed on that sentence
C6_Witness ==
    /\ pc = "check"
    /\ OpType \in NeedsTwoPhrases
    /\ sentsize = 1
    /\ nextStep = NULL
    /\ proposeAlternativeTranslation(doc[sentno + 1][1]) # {doc[sentno + 1][1]}

\* C7: a "saved-state" generator whose file is missing fails with a
\* ConfigurationException, and a FileFormatException is thrown only when an
\* existing file does not deserialize
C7_MissingFileIsConfigurationError ==
    pc = "failed" =>
        /\ (params.initMethod = "saved-state" /\ params.file = "missing")
             => error = "ConfigurationException"
        /\ error = "FileFormatException"
             => (params.initMethod = "saved-state" /\ params.file = "corrupt")

\* the drawn run [start, start + len) of the operator that has just returned
DrawnRun == Slice(doc[sentno + 1], nextStep.start, nextStep.start + nextStep.len)

\* the sentence with the drawn run replaced by r
RunReplaced(r) ==
    Slice(doc[sentno + 1], 0, nextStep.start) \o r
        \o Slice(doc[sentno + 1], nextStep.start + nextStep.len,
                 Len(doc[sentno + 1]))

\* C8: LinearisePhrases hands back NULL when the drawn run is in ascending
\* anchor order; otherwise applying its modification by its index range
\* puts the phrases of the run in ascending order and leaves the rest of
\* the sentence as it was
C8_LineariseSortsRun ==
    (pc = "check" /\ OpType = "linearise-phrases" /\ sentsize >= 2) =>
        IF DrawnRun = Sort(DrawnRun)
        THEN nextStep.kind = "null"
        ELSE /\ nextStep.kind = "step"
             /\ ApplyModifications(doc[sentno + 1], nextStep.mods)
                  = RunReplaced(Sort(DrawnRun))

\* C9: Resegment hands back NULL when the proposed segmentation equals the
\* drawn run; otherwise applying its one modification by its index range
\* replaces the run by the proposed segmentation
C9_ResegmentReplacesRun ==
    (pc = "check" /\ OpType = "resegment") =>
        IF nextStep.newseg = DrawnRun
        THEN nextStep.kind = "null"
        ELSE /\ nextStep.kind = "step"
             /\ Len(nextStep.mods) = 1
             /\ ApplyModifications(doc[sentno + 1], nextStep.mods)
                  = RunReplaced(nextStep.newseg)

\* the sentence seg with the block [start, start + block) taken out and put
\* back before what was at position dest
BlockMoved(seg, start, block, dest) ==
    IF dest < start
    THEN Slice(seg, 0, dest) \o Slice(seg, start, start + block)
           \o Slice(seg, dest, start) \o Slice(seg, start + block, Len(seg))
    ELSE Slice(seg, 0, start) \o Slice(seg, start + block, dest)
           \o Slice(seg, start, start + block) \o Slice(seg, dest, Len(seg))

\* C10: on a sentence of at least 2 phrases MovePhrases always hands back a
\* step (no assertion fails): the block size is in [1, size - 1], the block
\* lies inside the sentence, dest is in [0, size] and outside
\* [start, start + block]; the step inserts the block at [dest, dest), then
\* deletes [start, start + block), and applying both moves the block before
\* what was at position dest
C10_MoveRelocatesBlock ==
    (pc = "check" /\ OpType = "move-phrases" /\ sentsize >= 2) =>
        LET seg == doc[sentno + 1]
            size == Len(seg)
            start == nextStep.start
            block == nextStep.len
            dest == nextStep.dest
        IN /\ nextStep.kind = "step"
           /\ 1 <= block /\ block <= size - 1
           /\ 0 <= start /\ start + block <= size
           /\ 0 <= dest /\ dest <= size
           /\ dest < start \/ dest > start + block
           /\ nextStep.mods =
                <<Modification(sentno, dest, dest, <<>>,
                               Slice(seg, start, start + block)),
                  Modification(sentno, start, start + block,
                               Slice(seg, start, start + block), <<>>)>>
           /\ ApplyModifications(seg, nextStep.mods)
                = BlockMoved(seg, start, block, dest)

\* a block of two phrases starting at 1 moved to the end of the longest
\* sentence
C10_Witness ==
    /\ pc = "check"
    /\ OpType = "move-phrases"
    /\ nextStep.kind = "step"
    /\ Len(doc[sentno + 1]) = MaxWords
    /\ nextStep.start = 1
    /\ nextStep.len = 2
    /\ nextStep.dest = MaxWords
    /\ ApplyModifications(doc[sentno + 1], nextStep.mods)
         = Slice(doc[sentno + 1], 0, 1) \o Slice(doc[sentno + 1], 3, MaxWords)
             \o Slice(doc[sentno + 1], 1, 3)

\* SwapPhrases has handed back its result for a sentence of two or more phrases
SwapReturned ==
    /\ pc = "check"
    /\ OpType = "swap-phrases"
    /\ ~TooShort(sentsize)

\* the sentence with the phrases at the positions p1 and p2 exchanged
Exchanged(seg, p1, p2) ==
    [i \in 1 .. Len(seg) |->
       IF i = p1 + 1 THEN seg[p2 + 1]
       ELSE IF i = p2 + 1 THEN seg[p1 + 1]
       ELSE seg[i]]

\* C11: for a sentence of two or more phrases SwapPhrases always hands back a
\* step (no failed assertion, no wrapped index); its direction is right for
\* phrase1 = 0 and left for phrase1 = size - 1; phrase2 is in [0, size),
\* differs from phrase1 and lies on the side of the direction; the step has
\* two modifications, [phrase1, phrase1 + 1) replaced by the phrase at phrase2
\* and [phrase2, phrase2 + 1) by the phrase at phrase1; applying both gives
\* the sentence with exactly these two phrases exchanged
C11_SwapExchangesTwoPhrases ==
    SwapReturned =>
        LET sent == doc[sentno + 1]
            size == Len(sent)
            phrase1 == nextStep.start
            phrase2 == nextStep.dest
            direction == nextStep.dir
        IN /\ nextStep.kind = "step"
           /\ phrase1 \in 0 .. (size - 1)
           /\ phrase1 = 0 => direction
           /\ phrase1 = size - 1 => ~direction
           /\ phrase2 \in 0 .. (size - 1)
           /\ phrase2 # phrase1
           /\ direction <=> phrase2 > phrase1
           /\ nextStep.mods =
                <<Modification(sentno, phrase1, phrase1 + 1,
                               <<sent[phrase1 + 1]>>, <<sent[phrase2 + 1]>>),
                  Modification(sentno, phrase2, phrase2 + 1,
                               <<sent[phrase2 + 1]>>, <<sent[phrase1 + 1]>>)>>
           /\ ApplyModifications(sent, nextStep.mods)
                = Exchanged(sent, phrase1, phrase2)

\* SwapPhrases on a sentence of three phrases with phrase1 = 0: the direction
\* is right and the distance was drawn, here two, to the last phrase
C11_Witness ==
    /\ SwapReturned
    /\ nextStep.kind = "step"
    /\ Len(doc[sentno + 1]) = 3
    /\ nextStep.start = 0
    /\ nextStep.dir
    /\ nextStep.dest = 2
    /\ ApplyModifications(doc[sentno + 1], nextStep.mods)
         = <<doc[sentno + 1][3], doc[sentno + 1][2], doc[sentno + 1][1]>>

\* an operator with the resampling loop is in the loop or just past it
Resampling ==
    /\ pc \in {"draw", "body"}
    /\ OpType \in NeedsTwoPhrases

\* C12: one call of PermutePhrases, LinearisePhrases, SwapPhrases or
\* MovePhrases draws a sentence at most 10 times; it draws again only after a
\* sentence of fewer than two phrases; and it gives up on short sentences
\* after the 10th draw, without an 11th
C12_AtMostTenDraws ==
    Resampling =>
        /\ draws <= 10
        /\ (pc = "draw" /\ draws > 0) => TooShort(sentsize)
        /\ (pc = "body" /\ TooShort(sentsize)) => draws = 10

\* what the loop of the code does: it draws again only after a sentence of
\* fewer than two phrases, and gives up after MaxTrials + 1 draws
AtMostElevenDraws ==
    Resampling =>
        /\ draws <= MaxTrials + 1
        /\ (pc = "draw" /\ draws > 0) => TooShort(sentsize)
        /\ (pc = "body" /\ TooShort(sentsize)) => draws = MaxTrials + 1

\* the operator has drawn ten sentences of fewer than two phrases and is
\* still in its loop
C12_Witness ==
    /\ Resampling
    /\ pc = "draw"
    /\ draws = 10
    /\ TooShort(sentsize)
====
